---------------------------- MODULE Spec2Model ----------------------------
(***************************************************************************)
(* A model of NubeIO/gorm-orm: the query-string compiler BuildWhereClause  *)
(* (where clause, preloads, pagination, aggregates), the WhereClause       *)
(* builder API, and the transaction handling of the bulk operations.       *)
(*                                                                         *)
(* Go strings are TLA+ strings; a character is a string of length one.     *)
(* Go's int is taken to be 64 bits wide (strconv.IntSize on amd64/arm64).  *)
(***************************************************************************)
EXTENDS Integers, Sequences, FiniteSets, TLC

VARIABLES
    \* BuildWhereClause
    queryString,        \* the argument
    whereClause,        \* the descriptor under construction
    andConditions,      \* strings.Split(queryString, "&")
    i,                  \* position of the outer range loop (1-based)
    orConditions,       \* strings.Split(andCond, "|")
    j,                  \* position of the inner range loop (1-based)
    orConditionParts,   \* fragments of the current OR group
    pc,                 \* "call", "loop", "or", "done"
    err,                \* TRUE when an error is returned
    ret,                \* "pending", "nil" or "whereClause": the pointer returned
    \* builder API
    w,                  \* the receiver of the chained calls
    chain,              \* the calls made on w so far
    \* bulk operations
    bulk                \* the running bulk operation and its transaction

vars == <<queryString, whereClause, andConditions, i, orConditions, j,
          orConditionParts, pc, err, ret, w, chain, bulk>>

compileVars == <<queryString, whereClause, andConditions, i, orConditions, j,
                 orConditionParts, pc, err, ret>>

-----------------------------------------------------------------------------
(* strings *)

Char(s, k) == SubSeq(s, k, k)

\* strings.HasPrefix
HasPrefix(s, prefix) ==
    Len(s) >= Len(prefix) /\ SubSeq(s, 1, Len(prefix)) = prefix

\* strings.TrimPrefix
TrimPrefix(s, prefix) ==
    IF HasPrefix(s, prefix) THEN SubSeq(s, Len(prefix) + 1, Len(s)) ELSE s

\* strings.Index, 1-based; 0 when sep does not occur in s
Index(s, sep) ==
    LET hits == {k \in 1..(Len(s) - Len(sep) + 1) : SubSeq(s, k, k + Len(sep) - 1) = sep}
    IN  IF hits = {} THEN 0 ELSE CHOOSE k \in hits : \A m \in hits : k <= m

\* strings.SplitN(s, sep, n) for n >= 1 and a non-empty sep
RECURSIVE SplitN(_, _, _)
SplitN(s, sep, n) ==
    LET k == Index(s, sep)
    IN  IF n <= 1 \/ k = 0
        THEN <<s>>
        ELSE <<SubSeq(s, 1, k - 1)>>
             \o SplitN(SubSeq(s, k + Len(sep), Len(s)), sep, n - 1)

\* strings.Split(s, sep) for a non-empty sep
RECURSIVE Split(_, _)
Split(s, sep) ==
    LET k == Index(s, sep)
    IN  IF k = 0
        THEN <<s>>
        ELSE <<SubSeq(s, 1, k - 1)>> \o Split(SubSeq(s, k + Len(sep), Len(s)), sep)

\* strings.Join
RECURSIVE Join(_, _)
Join(elems, sep) ==
    IF Len(elems) = 0 THEN ""
    ELSE IF Len(elems) = 1 THEN elems[1]
    ELSE elems[1] \o sep \o Join(Tail(elems), sep)

-----------------------------------------------------------------------------
(* strconv.Atoi *)

Digits == {"0", "1", "2", "3", "4", "5", "6", "7", "8", "9"}

DigitVal(c) ==
    CASE c = "0" -> 0 [] c = "1" -> 1 [] c = "2" -> 2 [] c = "3" -> 3
      [] c = "4" -> 4 [] c = "5" -> 5 [] c = "6" -> 6 [] c = "7" -> 7
      [] c = "8" -> 8 [] c = "9" -> 9

AllDigits(s) == \A k \in 1..Len(s) : Char(s, k) \in Digits

\* the digits of s without leading zeros
RECURSIVE StripZeros(_)
StripZeros(s) ==
    IF Len(s) > 0 /\ Char(s, 1) = "0" THEN StripZeros(Tail(s)) ELSE s

\* a <= b for digit strings of one length
RECURSIVE DigitsLeq(_, _)
DigitsLeq(a, b) ==
    IF Len(a) = 0 THEN TRUE
    ELSE IF Char(a, 1) = Char(b, 1) THEN DigitsLeq(Tail(a), Tail(b))
    ELSE DigitVal(Char(a, 1)) < DigitVal(Char(b, 1))

\* the magnitude d (a digit string) is at most the magnitude max
MagnitudeLeq(d, max) ==
    LET m == StripZeros(d)
    IN  \/ Len(m) < Len(max)
        \/ Len(m) = Len(max) /\ DigitsLeq(m, max)

MaxInt64 == "9223372036854775807"
MinInt64Magnitude == "9223372036854775808"

\* n = n*10 + ch over the digits of s
RECURSIVE Horner(_, _)
Horner(n, s) ==
    IF Len(s) = 0 THEN n ELSE Horner(n * 10 + DigitVal(Char(s, 1)), Tail(s))

\* strconv.Atoi(s): [ok |-> FALSE] on a syntax or range error
Atoi(s) ==
    LET signed == Len(s) > 0 /\ Char(s, 1) \in {"-", "+"}
        neg    == Len(s) > 0 /\ Char(s, 1) = "-"
        body   == IF signed THEN Tail(s) ELSE s
    IN  IF Len(body) = 0 \/ ~AllDigits(body)
        THEN [ok |-> FALSE, val |-> 0]
        ELSE IF ~MagnitudeLeq(body, IF neg THEN MinInt64Magnitude ELSE MaxInt64)
        THEN [ok |-> FALSE, val |-> 0]
        ELSE [ok |-> TRUE,
              val |-> IF neg THEN 0 - Horner(0, StripZeros(body))
                      ELSE Horner(0, StripZeros(body))]

-----------------------------------------------------------------------------
(* BuildWhereClause *)

\* &WhereClause{Aggregates: make(map[string][]string)}
EmptyMap == [k \in {} |-> <<>>]

NewDescriptor ==
    [Query |-> "", Args |-> <<>>, Preload |-> <<>>, Limit |-> 0, Offset |-> 0,
     OrderByASC |-> "", OrderByDESC |-> "", Page |-> 0, PageSize |-> 0,
     Aggregates |-> EmptyMap]

PaginationKeys == {"limit", "offset", "page", "pageSize"}

\* ClauseKind with pageSize missing from the switch
ClauseKindNoPageSize(andCond) ==
    LET parts == SplitN(andCond, "=", 2)
    IN  IF HasPrefix(andCond, "agg__") /\ Len(parts) = 2 THEN "aggregate"
        ELSE IF andCond = "" THEN "skip"
        ELSE IF HasPrefix(andCond, "useData") THEN "skip"
        ELSE IF HasPrefix(andCond, "useCache") THEN "skip"
        ELSE IF HasPrefix(andCond, "with_") THEN "preload"
        ELSE IF Len(parts) = 2 /\ parts[1] = "orderByASC" THEN "orderByASC"
        ELSE IF Len(parts) = 2 /\ parts[1] = "orderByDESC" THEN "orderByDESC"
        ELSE IF Len(parts) = 2 /\ parts[1] \in {"limit", "offset", "page"} THEN "pagination"
        ELSE "condition"

\* the branch of the loop body that handles andCond, in the order of the code
ClauseKind(andCond) ==
    LET parts == SplitN(andCond, "=", 2)
    IN  IF HasPrefix(andCond, "agg__") /\ Len(parts) = 2 THEN "aggregate"
        ELSE IF andCond = "" THEN "skip"
        ELSE IF HasPrefix(andCond, "useData") THEN "skip"
        ELSE IF HasPrefix(andCond, "useCache") THEN "skip"
        ELSE IF HasPrefix(andCond, "with_") THEN "preload"
        ELSE IF Len(parts) = 2 /\ parts[1] = "orderByASC" THEN "orderByASC"
        ELSE IF Len(parts) = 2 /\ parts[1] = "orderByDESC" THEN "orderByDESC"
        ELSE IF Len(parts) = 2 /\ parts[1] \in PaginationKeys THEN "pagination"
        ELSE "condition"

\* SetAggregate that keeps the entry a function name already has
SetAggregateFirstWins(aggregates, andCond) ==
    LET aggregateParts == SplitN(andCond, "=", 2)
        aggFunction    == TrimPrefix(aggregateParts[1], "agg__")
        fields         == aggregateParts[2]
    IN  [fn \in DOMAIN aggregates \cup {aggFunction} |->
            IF fn \in DOMAIN aggregates THEN aggregates[fn] ELSE Split(fields, "|")]

\* whereClause.Aggregates[aggFunction] = strings.Split(fields, "|")
SetAggregate(aggregates, andCond) ==
    LET aggregateParts == SplitN(andCond, "=", 2)
        aggFunction    == TrimPrefix(aggregateParts[1], "agg__")
        fields         == aggregateParts[2]
    IN  [fn \in DOMAIN aggregates \cup {aggFunction} |->
            IF fn = aggFunction THEN Split(fields, "|") ELSE aggregates[fn]]

\* the preload names a with_ clause appends
PreloadDirectives(andCond) == Split(TrimPrefix(andCond, "with_"), "|")

\* setPaginationField that swallows the error of strconv.Atoi
setPaginationFieldLenient(wc, key, value) ==
    LET r == Atoi(value)
    IN  IF ~r.ok THEN [ok |-> TRUE, wc |-> wc]
        ELSE [ok |-> TRUE,
              wc |-> CASE key = "limit"    -> [wc EXCEPT !.Limit = r.val]
                       [] key = "offset"   -> [wc EXCEPT !.Offset = r.val]
                       [] key = "page"     -> [wc EXCEPT !.Page = r.val]
                       [] key = "pageSize" -> [wc EXCEPT !.PageSize = r.val]
                       [] OTHER            -> wc]

\* setPaginationField: [ok |-> FALSE] when strconv.Atoi fails
setPaginationField(wc, key, value) ==
    LET r == Atoi(value)
    IN  IF ~r.ok THEN [ok |-> FALSE, wc |-> wc]
        ELSE [ok |-> TRUE,
              wc |-> CASE key = "limit"    -> [wc EXCEPT !.Limit = r.val]
                       [] key = "offset"   -> [wc EXCEPT !.Offset = r.val]
                       [] key = "page"     -> [wc EXCEPT !.Page = r.val]
                       [] key = "pageSize" -> [wc EXCEPT !.PageSize = r.val]
                       [] OTHER            -> wc]

\* Operator with the gte case lost to the gt case
OperatorPrefixMatch(fieldParts) ==
    IF Len(fieldParts) = 2
    THEN CASE HasPrefix(fieldParts[2], "gt") -> ">"
           [] HasPrefix(fieldParts[2], "lt") -> "<"
           [] fieldParts[2] = "ne"  -> "!="
           [] fieldParts[2] = "not" -> "NOT"
           [] OTHER                 -> "="
    ELSE "="

\* the switch of processCondition
Operator(fieldParts) ==
    IF Len(fieldParts) = 2
    THEN CASE fieldParts[2] = "gt"  -> ">"
           [] fieldParts[2] = "gte" -> ">="
           [] fieldParts[2] = "lt"  -> "<"
           [] fieldParts[2] = "lte" -> "<="
           [] fieldParts[2] = "ne"  -> "!="
           [] fieldParts[2] = "not" -> "NOT"
           [] OTHER                 -> "="
    ELSE "="

\* processCondition: cond = "" when the piece is not key=value; the error is always nil
processCondition(condition) ==
    LET parts == SplitN(condition, "=", 2)
    IN  IF Len(parts) # 2
        THEN [cond |-> "", args |-> <<>>]
        ELSE LET fieldParts == SplitN(parts[1], "__", 2)
             IN  [cond |-> fieldParts[1] \o " " \o Operator(fieldParts) \o " ?",
                  args |-> <<parts[2]>>]

\* AppendGroup without the len(orConditionParts) > 0 test
AppendGroupUnguarded(query, parts) ==
    (IF query # "" THEN query \o " AND " ELSE "")
    \o "(" \o Join(parts, " OR ") \o ")"

\* the end of the loop body: the group joins the query
AppendGroup(query, parts) ==
    IF Len(parts) > 0
    THEN (IF query # "" THEN query \o " AND " ELSE "")
         \o "(" \o Join(parts, " OR ") \o ")"
    ELSE query

-----------------------------------------------------------------------------
(* the builder API: each method changes the receiver and returns it *)

\* &WhereClause{}
NewWhereClause ==
    [Query |-> "", Args |-> <<>>, Preload |-> <<>>, Limit |-> 0, Offset |-> 0,
     OrderByASC |-> "", OrderByDESC |-> "", Page |-> 0, PageSize |-> 0,
     Aggregates |-> EmptyMap]

AddPreload(wc, preload) == [wc EXCEPT !.Preload = Append(wc.Preload, preload)]

Where(wc, query, args) == [wc EXCEPT !.Query = query, !.Args = args]

AddAnd(wc) == IF wc.Query # "" THEN [wc EXCEPT !.Query = wc.Query \o " AND "] ELSE wc

AddOr(wc) == IF wc.Query # "" THEN [wc EXCEPT !.Query = wc.Query \o " OR "] ELSE wc

And(wc, query, args) ==
    [wc EXCEPT !.Query = wc.Query \o " AND " \o query, !.Args = wc.Args \o args]

Or(wc, query, args) ==
    [wc EXCEPT !.Query = wc.Query \o " OR " \o query, !.Args = wc.Args \o args]

LimitClause(wc, limit) == [wc EXCEPT !.Limit = limit]

OffsetClause(wc, offset) == [wc EXCEPT !.Offset = offset]

\* w.Query += fmt.Sprintf(format, field); w.Args = append(w.Args, value)
Like(wc, field, value) ==
    [wc EXCEPT !.Query = wc.Query \o field \o " LIKE ?", !.Args = Append(wc.Args, value)]

Is(wc, field, value) ==
    [wc EXCEPT !.Query = wc.Query \o field \o " IS ?", !.Args = Append(wc.Args, value)]

IsNot(wc, field, value) ==
    [wc EXCEPT !.Query = wc.Query \o field \o " IS NOT ?", !.Args = Append(wc.Args, value)]

GreaterThan(wc, field, value) ==
    [wc EXCEPT !.Query = wc.Query \o field \o " > ?", !.Args = Append(wc.Args, value)]

LessThanOrEqual(wc, field, value) ==
    [wc EXCEPT !.Query = wc.Query \o field \o " <= ?", !.Args = Append(wc.Args, value)]

GreaterThanOrEqual(wc, field, value) ==
    [wc EXCEPT !.Query = wc.Query \o field \o " >= ?", !.Args = Append(wc.Args, value)]

NotEqual(wc, field, value) ==
    [wc EXCEPT !.Query = wc.Query \o field \o " != ?", !.Args = Append(wc.Args, value)]

Equal(wc, field, value) ==
    [wc EXCEPT !.Query = wc.Query \o field \o " = ?", !.Args = Append(wc.Args, value)]

DateRange(wc, field, startDate, endDate) ==
    [wc EXCEPT !.Query = wc.Query \o field \o " >= ? AND " \o field \o " <= ?",
               !.Args = wc.Args \o <<startDate, endDate>>]

LengthGreaterThan(wc, field, length) ==
    [wc EXCEPT !.Query = wc.Query \o "LENGTH(" \o field \o ") > ?",
               !.Args = Append(wc.Args, length)]

-----------------------------------------------------------------------------
(* the state machine of BuildWhereClause *)

andCond == andConditions[i]

\* func BuildWhereClause(queryString string): the descriptor is allocated and
\* the query string split at '&'
Enter ==
    /\ pc = "call"
    /\ whereClause' = NewDescriptor
    /\ andConditions' = Split(queryString, "&")
    /\ i' = 1
    /\ pc' = "loop"
    /\ UNCHANGED <<queryString, orConditions, j, orConditionParts, err, ret, w, chain, bulk>>

InLoop == pc = "loop" /\ i <= Len(andConditions)

\* agg__fn=fields
ClauseAggregate ==
    /\ InLoop
    /\ ClauseKind(andCond) = "aggregate"
    /\ whereClause' = [whereClause EXCEPT
                          !.Aggregates = SetAggregate(whereClause.Aggregates, andCond)]
    /\ i' = i + 1
    /\ UNCHANGED <<queryString, andConditions, orConditions, j, orConditionParts,
                   pc, err, ret, w, chain, bulk>>

\* the empty clause, useData..., useCache...
ClauseSkip ==
    /\ InLoop
    /\ ClauseKind(andCond) = "skip"
    /\ i' = i + 1
    /\ UNCHANGED <<queryString, whereClause, andConditions, orConditions, j,
                   orConditionParts, pc, err, ret, w, chain, bulk>>

\* with_...
ClausePreload ==
    /\ InLoop
    /\ ClauseKind(andCond) = "preload"
    /\ whereClause' = [whereClause EXCEPT
                          !.Preload = whereClause.Preload \o PreloadDirectives(andCond)]
    /\ i' = i + 1
    /\ UNCHANGED <<queryString, andConditions, orConditions, j, orConditionParts,
                   pc, err, ret, w, chain, bulk>>

\* orderByASC=value, orderByDESC=value
ClauseOrderBy ==
    /\ InLoop
    /\ ClauseKind(andCond) \in {"orderByASC", "orderByDESC"}
    /\ LET value == SplitN(andCond, "=", 2)[2]
       IN  whereClause' = IF ClauseKind(andCond) = "orderByASC"
                          THEN [whereClause EXCEPT !.OrderByASC = value]
                          ELSE [whereClause EXCEPT !.OrderByDESC = value]
    /\ i' = i + 1
    /\ UNCHANGED <<queryString, andConditions, orConditions, j, orConditionParts,
                   pc, err, ret, w, chain, bulk>>

\* limit=, offset=, page=, pageSize=: the value is set, or the error returned
ClausePagination ==
    /\ InLoop
    /\ ClauseKind(andCond) = "pagination"
    /\ LET parts == SplitN(andCond, "=", 2)
           r     == setPaginationField(whereClause, parts[1], parts[2])
       IN  IF r.ok
           THEN /\ whereClause' = r.wc
                /\ i' = i + 1
                /\ UNCHANGED <<pc, err, ret>>
           ELSE /\ err' = TRUE
                /\ ret' = "nil"
                /\ pc' = "done"
                /\ UNCHANGED <<whereClause, i>>
    /\ UNCHANGED <<queryString, andConditions, orConditions, j, orConditionParts,
                   w, chain, bulk>>

\* any other clause is split at '|' into the alternatives of an OR group
ClauseOrGroup ==
    /\ InLoop
    /\ ClauseKind(andCond) = "condition"
    /\ orConditions' = Split(andCond, "|")
    /\ orConditionParts' = <<>>
    /\ j' = 1
    /\ pc' = "or"
    /\ UNCHANGED <<queryString, whereClause, andConditions, i, err, ret, w, chain, bulk>>

\* one pass of the inner loop
OrCondition ==
    /\ pc = "or"
    /\ j <= Len(orConditions)
    /\ LET r == processCondition(orConditions[j])
       IN  IF r.cond # ""
           THEN /\ orConditionParts' = Append(orConditionParts, r.cond)
                /\ whereClause' = [whereClause EXCEPT !.Args = whereClause.Args \o r.args]
           ELSE UNCHANGED <<orConditionParts, whereClause>>
    /\ j' = j + 1
    /\ UNCHANGED <<queryString, andConditions, i, orConditions, pc, err, ret, w, chain, bulk>>

\* after the inner loop the group is joined onto the query
OrGroupEnd ==
    /\ pc = "or"
    /\ j > Len(orConditions)
    /\ whereClause' = [whereClause EXCEPT
                          !.Query = AppendGroup(whereClause.Query, orConditionParts)]
    /\ i' = i + 1
    /\ pc' = "loop"
    /\ UNCHANGED <<queryString, andConditions, orConditions, j, orConditionParts,
                   err, ret, w, chain, bulk>>

\* return whereClause, nil
Return ==
    /\ pc = "loop"
    /\ i > Len(andConditions)
    /\ ret' = "whereClause"
    /\ pc' = "done"
    /\ UNCHANGED <<queryString, whereClause, andConditions, i, orConditions, j,
                   orConditionParts, err, w, chain, bulk>>

Next ==
    \/ Enter
    \/ ClauseAggregate
    \/ ClauseSkip
    \/ ClausePreload
    \/ ClauseOrderBy
    \/ ClausePagination
    \/ ClauseOrGroup
    \/ OrCondition
    \/ OrGroupEnd
    \/ Return

-----------------------------------------------------------------------------
(* the query strings the compiler is run on *)

\* the strings made of at most n of the tokens
RECURSIVE Strings(_, _)
Strings(tokens, n) ==
    IF n = 0 THEN {""}
    ELSE {""} \cup {t \o s : t \in tokens, s \in Strings(tokens, n - 1)}

\* the usage example of the source and the sample queries of the specification
Examples ==
    {"firstName__ne=John&lastName=Smith|age__gt=30&with_team|with_friends&limit=10&offset=20&page=2&pageSize=10",
     "a=1", "a=1&b__gt=2", "a=1|b=2", "with_team|with_friends", "limit=10&offset=5",
     "limit=abc", "agg__sum=amount|tax", "a=1|garbage",
     "useData=1&orderByASC=name&orderByDESC=age&useCache"}

IdleBulk == [op |-> "none"]

InitOn(inputs) ==
    /\ queryString \in inputs
    /\ whereClause = NewDescriptor
    /\ andConditions = <<>>
    /\ i = 0
    /\ orConditions = <<>>
    /\ j = 0
    /\ orConditionParts = <<>>
    /\ pc = "call"
    /\ err = FALSE
    /\ ret = "pending"
    /\ w = NewWhereClause
    /\ chain = <<>>
    /\ bulk = IdleBulk

MaxTokens == 5
GroupTokens == {"&", "|", "a=1", "x", "=", "?", "with_t", "limit=5"}

Init == InitOn(Examples \cup Strings(GroupTokens, MaxTokens))
Spec == Init /\ [][Next]_vars

-----------------------------------------------------------------------------
(* what the documentation says of a piece, a clause and a query, stated on   *)
(* the characters of the string and not by the code's splitting             *)

HasEq(p) == \E k \in 1..Len(p) : Char(p, k) = "="

\* the position of the first '='
EqAt(p) == CHOOSE k \in 1..Len(p) :
               Char(p, k) = "=" /\ \A m \in 1..(k - 1) : Char(p, m) # "="

KeyOf(p) == SubSeq(p, 1, EqAt(p) - 1)
ValueOf(p) == SubSeq(p, EqAt(p) + 1, Len(p))

HasSuffixMark(key) == \E k \in 1..(Len(key) - 1) : SubSeq(key, k, k + 1) = "__"

\* the position of the first "__"
MarkAt(key) == CHOOSE k \in 1..(Len(key) - 1) :
                   /\ SubSeq(key, k, k + 1) = "__"
                   /\ \A m \in 1..(k - 1) : SubSeq(key, m, m + 1) # "__"

FieldOf(p) ==
    IF HasSuffixMark(KeyOf(p)) THEN SubSeq(KeyOf(p), 1, MarkAt(KeyOf(p)) - 1)
    ELSE KeyOf(p)

OpOf(p) ==
    LET key == KeyOf(p)
        suffix == SubSeq(key, MarkAt(key) + 2, Len(key))
    IN  IF ~HasSuffixMark(key) THEN "="
        ELSE IF suffix = "gt" THEN ">"
        ELSE IF suffix = "gte" THEN ">="
        ELSE IF suffix = "lt" THEN "<"
        ELSE IF suffix = "lte" THEN "<="
        ELSE IF suffix = "ne" THEN "!="
        ELSE IF suffix = "not" THEN "NOT"
        ELSE "="

Fragment(p) == FieldOf(p) \o " " \o OpOf(p) \o " ?"

SortKeys == {"orderByASC", "orderByDESC"}

IsAggregateDirective(c) == HasPrefix(c, "agg__") /\ HasEq(c)
IsIgnored(c) == c = "" \/ HasPrefix(c, "useData") \/ HasPrefix(c, "useCache")
IsPreloadDirective(c) == HasPrefix(c, "with_")
IsKeyed(c, keys) == HasEq(c) /\ KeyOf(c) \in keys

IsConditionClause(c) ==
    /\ ~IsAggregateDirective(c)
    /\ ~IsIgnored(c)
    /\ ~IsPreloadDirective(c)
    /\ ~IsKeyed(c, SortKeys \cup PaginationKeys)

Alternatives(c) == Split(c, "|")
ParsedAlternatives(c) == SelectSeq(Alternatives(c), HasEq)

Map(F(_), s) == [k \in 1..Len(s) |-> F(s[k])]

Group(c) == "(" \o Join(Map(Fragment, ParsedAlternatives(c)), " OR ") \o ")"

Contributes(c) == IsConditionClause(c) /\ Len(ParsedAlternatives(c)) > 0

\* number of occurrences of the character ch in s
Count(s, ch) == Cardinality({k \in 1..Len(s) : Char(s, k) = ch})

Returned == pc = "done" /\ ~err

-----------------------------------------------------------------------------
(* claims checked on Spec *)

\* C1: whenever BuildWhereClause returns no error, the number of '?' in
\* Query equals the length of Args.
C1_PlaceholdersMatchArgs ==
    Returned => Count(whereClause.Query, "?") = Len(whereClause.Args)

\* C4: a preload clause whose every alternative carries the with_ prefix
\* appends the names with the prefix removed from each alternative, in order,
\* and leaves Query as it was.
C4_PreloadStripsEveryPrefix ==
    [][(/\ InLoop
        /\ \A k \in 1..Len(Alternatives(andCond)) :
               HasPrefix(Alternatives(andCond)[k], "with_"))
       => /\ whereClause'.Preload =
                 whereClause.Preload
                 \o [k \in 1..Len(Alternatives(andCond)) |->
                        TrimPrefix(Alternatives(andCond)[k], "with_")]
          /\ whereClause'.Query = whereClause.Query]_vars

\* C5: Query is the " AND "-join, in clause order, of one parenthesized group
\* per condition clause that has an alternative containing '='; a group is
\* the " OR "-join of the fragments of those alternatives; alternatives
\* without '=' and clauses without any parsed alternative leave no trace.
C5_QueryIsJoinOfGroups ==
    Returned =>
        whereClause.Query =
            Join(Map(Group, SelectSeq(andConditions, Contributes)), " AND ")

\* a clause without any parsed alternative between two groups
C5_Witness ==
    /\ Returned
    /\ queryString = "a=1&x&a=1"
    /\ whereClause.Query = "(a = ?) AND (a = ?)"

-----------------------------------------------------------------------------
(* claims about directives, checked on SpecDirective *)

MaxDirectiveTokens == 4
DirectiveTokens ==
    {"&", "|", "a=1", "limit=5", "offset=5", "page=5", "pageSize=5",
     "orderByASC=f", "orderByDESC=f", "with_t", "agg__s=f"}

InitDirective == InitOn(Examples \cup Strings(DirectiveTokens, MaxDirectiveTokens))
SpecDirective == InitDirective /\ [][Next]_vars

\* a pagination or sort key with a value, a preload or an aggregate directive
IsDirective(p) ==
    \/ IsKeyed(p, SortKeys \cup PaginationKeys)
    \/ HasPrefix(p, "with_")
    \/ HasPrefix(p, "agg__")

\* no step taken while the clause at i is being handled changes Query or Args
ClauseAddsNothing ==
    /\ whereClause'.Query = whereClause.Query
    /\ whereClause'.Args = whereClause.Args

\* C2 (as amended): a whole &-separated clause that is key=value with key
\* limit, offset, page, pageSize, orderByASC or orderByDESC, or that starts
\* with with_ or agg__, adds no fragment to Query and no value to Args.
C2_DirectiveClauseAddsNothing ==
    [][(pc \in {"loop", "or"} /\ i <= Len(andConditions) /\ IsDirective(andCond))
       => ClauseAddsNothing]_vars

\* C2 (as claimed): the same of a directive in either position, a whole
\* clause or one |-separated alternative of a clause.
C2_DirectiveAddsNothingAnywhere ==
    [][/\ (pc \in {"loop", "or"} /\ i <= Len(andConditions) /\ IsDirective(andCond))
          => ClauseAddsNothing
       /\ (pc = "or" /\ j <= Len(orConditions) /\ IsDirective(orConditions[j]))
          => /\ orConditionParts' = orConditionParts
             /\ whereClause'.Args = whereClause.Args]_vars

\* directives of each kind between two conditions
C2_Witness ==
    /\ Returned
    /\ andConditions = <<"a=1", "pageSize=5">>
    /\ whereClause.Query = "(a = ?)"
    /\ whereClause.Args = <<"1">>
    /\ whereClause.PageSize = 5

-----------------------------------------------------------------------------
(* claims about pagination values, checked on SpecPagination *)

MaxPaginationTokens == 4
PaginationTokens ==
    {"&", "limit=", "offset=", "page=", "pageSize=", "0", "5", "-", "+", "x",
     "99999999999999999999"}

InitPagination == InitOn(Examples \cup Strings(PaginationTokens, MaxPaginationTokens))
SpecPagination == InitPagination /\ [][Next]_vars

\* an optionally signed, non-empty string of decimal digits
IsDecimalInteger(v) ==
    LET body == IF Len(v) > 0 /\ Char(v, 1) \in {"+", "-"} THEN Tail(v) ELSE v
    IN  Len(body) > 0 /\ AllDigits(body)

\* the decimal integer v is a value of Go's int
FitsInt(v) ==
    IF Char(v, 1) = "-" THEN MagnitudeLeq(Tail(v), MinInt64Magnitude)
    ELSE IF Char(v, 1) = "+" THEN MagnitudeLeq(Tail(v), MaxInt64)
    ELSE MagnitudeLeq(v, MaxInt64)

NumericClauses == {k \in 1..Len(andConditions) : IsKeyed(andConditions[k], PaginationKeys)}

ReturnsOneOfTwo ==
    /\ err => ret = "nil"
    /\ ~err => ret = "whereClause"

\* C3 (as claimed): an error is returned exactly when some clause is
\* key=value with key limit, offset, page or pageSize and a value that is not
\* a base-10 integer; the descriptor is nil then, and non-nil otherwise.
C3_ErrorIffNotInteger ==
    pc = "done" =>
        /\ err <=> \E k \in NumericClauses : ~IsDecimalInteger(ValueOf(andConditions[k]))
        /\ ReturnsOneOfTwo

\* C3 (as amended): an error is returned exactly when some clause is
\* key=value with key limit, offset, page or pageSize and a value that is not
\* a base-10 integer or does not fit Go's int; the descriptor is nil then,
\* and non-nil otherwise.
C3_ErrorIffAtoiRejects ==
    pc = "done" =>
        /\ err <=> \E k \in NumericClauses :
                       \/ ~IsDecimalInteger(ValueOf(andConditions[k]))
                       \/ ~FitsInt(ValueOf(andConditions[k]))
        /\ ReturnsOneOfTwo

\* the error of a value that is an integer too large for int
C3_Witness ==
    /\ pc = "done"
    /\ err
    /\ ret = "nil"
    /\ andConditions = <<"page=99999999999999999999">>
    /\ i = 1

\* C6: after a successful call Limit, Offset, Page and PageSize are all
\* non-negative.
C6_PaginationNonNegative ==
    Returned =>
        /\ whereClause.Limit >= 0
        /\ whereClause.Offset >= 0
        /\ whereClause.Page >= 0
        /\ whereClause.PageSize >= 0

-----------------------------------------------------------------------------
(* claims about conditions, checked on SpecCondition *)

MaxConditionTokens == 4
ConditionTokens ==
    {"a", "__gt", "__gte", "__lt", "__lte", "__ne", "__not", "__x", "=1", "_", "|"}

InitCondition == InitOn(Examples \cup Strings(ConditionTokens, MaxConditionTokens))
SpecCondition == InitCondition /\ [][Next]_vars

\* C7: a piece with '=' is split at its first '=' into key and value and key
\* at its first "__" into field and suffix; it gives "<field> <op> ?", with
\* op chosen by the suffix (= when there is none or it is unknown), and the
\* raw value as its single argument.
C7_ConditionFragment ==
    [][(pc = "or" /\ j <= Len(orConditions) /\ HasEq(orConditions[j]))
       => /\ orConditionParts' = Append(orConditionParts, Fragment(orConditions[j]))
          /\ whereClause'.Args = Append(whereClause.Args, ValueOf(orConditions[j]))]_vars

\* a >= condition with '=' in its value has been processed
C7_Witness ==
    /\ pc = "or"
    /\ j = 2
    /\ orConditions = <<"a__gte=1=1">>
    /\ orConditionParts = <<"a >= ?">>
    /\ whereClause.Args = <<"1=1">>

-----------------------------------------------------------------------------
(* claims about aggregates, checked on SpecAggregate *)

MaxAggregateTokens == 5
AggregateTokens == {"&", "agg__s=f", "agg__s=g|h", "agg__c=f", "|g", "a=1"}

InitAggregate == InitOn(Examples \cup Strings(AggregateTokens, MaxAggregateTokens))
SpecAggregate == InitAggregate /\ [][Next]_vars

\* the function name of an aggregate directive
FnOf(c) == SubSeq(KeyOf(c), Len("agg__") + 1, Len(KeyOf(c)))

\* each function name with the fields of the last directive that names it
LastAggregates(cs) ==
    LET fnAt == [k \in 1..Len(cs) |->
                    IF IsAggregateDirective(cs[k]) THEN <<FnOf(cs[k])>> ELSE <<>>]
        last(fn) == CHOOSE k \in 1..Len(cs) :
                        /\ fnAt[k] = <<fn>>
                        /\ \A m \in (k + 1)..Len(cs) : fnAt[m] # <<fn>>
    IN  [fn \in {fnAt[k][1] : k \in {m \in 1..Len(cs) : fnAt[m] # <<>>}} |->
            Split(ValueOf(cs[last(fn)]), "|")]

\* C8: after any sequence of clauses Aggregates maps each function name fn to
\* the |-split field list of the last clause agg__fn=fields processed.
C8_AggregatesLastWins ==
    pc # "call" =>
        whereClause.Aggregates = LastAggregates(SubSeq(andConditions, 1, i - 1))

\* an entry overwritten, another one untouched
C8_Witness ==
    /\ Returned
    /\ queryString = "agg__c=f&agg__s=f&agg__s=g|h"
    /\ DOMAIN whereClause.Aggregates = {"c", "s"}
    /\ whereClause.Aggregates["s"] = <<"g", "h">>
    /\ whereClause.Aggregates["c"] = <<"f">>

-----------------------------------------------------------------------------
(* chains of builder calls *)

MaxCalls == 4
BuilderQueries == {"status = ?", "created_at > ?"}
BuilderFields == {"title", "archived"}
\* the argument of the k-th call of a chain (arguments are opaque values)
ArgOfCall == <<"a", "b", "c", "d", "e", "f">>

IdleCompile ==
    /\ queryString = ""
    /\ whereClause = NewDescriptor
    /\ andConditions = <<>>
    /\ i = 0
    /\ orConditions = <<>>
    /\ j = 0
    /\ orConditionParts = <<>>
    /\ pc = "idle"
    /\ err = FALSE
    /\ ret = "pending"

\* w := NewWhereClause()
InitBuilder ==
    /\ IdleCompile
    /\ w = NewWhereClause
    /\ chain = <<>>
    /\ bulk = IdleBulk

CanCall == pc = "idle" /\ bulk.op = "none" /\ Len(chain) < MaxCalls
NextArg == ArgOfCall[Len(chain) + 1]

\* the call is made on w and recorded in the chain
Call(op, text, args, result) ==
    /\ w' = result
    /\ chain' = Append(chain, [op |-> op, text |-> text, args |-> args])
    /\ UNCHANGED <<compileVars, bulk>>

CallWhere ==
    /\ CanCall
    /\ \E q \in BuilderQueries : Call("Where", q, <<NextArg>>, Where(w, q, <<NextArg>>))

CallAnd ==
    /\ CanCall
    /\ \E q \in BuilderQueries : Call("And", q, <<NextArg>>, And(w, q, <<NextArg>>))

CallOr ==
    /\ CanCall
    /\ \E q \in BuilderQueries : Call("Or", q, <<NextArg>>, Or(w, q, <<NextArg>>))

CallAddAnd == CanCall /\ Call("AddAnd", "", <<>>, AddAnd(w))

CallAddOr == CanCall /\ Call("AddOr", "", <<>>, AddOr(w))

CallLimitClause == CanCall /\ Call("LimitClause", "", <<>>, LimitClause(w, Len(chain) + 1))

CallOffsetClause == CanCall /\ Call("OffsetClause", "", <<>>, OffsetClause(w, Len(chain) + 1))

CallAddPreload == CanCall /\ Call("AddPreload", "", <<>>, AddPreload(w, NextArg))

CallLike ==
    /\ CanCall
    /\ \E f \in BuilderFields : Call("Like", f, <<NextArg>>, Like(w, f, NextArg))

CallIs ==
    /\ CanCall
    /\ \E f \in BuilderFields : Call("Is", f, <<NextArg>>, Is(w, f, NextArg))

CallIsNot ==
    /\ CanCall
    /\ \E f \in BuilderFields : Call("IsNot", f, <<NextArg>>, IsNot(w, f, NextArg))

CallGreaterThan ==
    /\ CanCall
    /\ \E f \in BuilderFields :
           Call("GreaterThan", f, <<NextArg>>, GreaterThan(w, f, NextArg))

CallLessThanOrEqual ==
    /\ CanCall
    /\ \E f \in BuilderFields :
           Call("LessThanOrEqual", f, <<NextArg>>, LessThanOrEqual(w, f, NextArg))

CallGreaterThanOrEqual ==
    /\ CanCall
    /\ \E f \in BuilderFields :
           Call("GreaterThanOrEqual", f, <<NextArg>>, GreaterThanOrEqual(w, f, NextArg))

CallNotEqual ==
    /\ CanCall
    /\ \E f \in BuilderFields : Call("NotEqual", f, <<NextArg>>, NotEqual(w, f, NextArg))

CallEqual ==
    /\ CanCall
    /\ \E f \in BuilderFields : Call("Equal", f, <<NextArg>>, Equal(w, f, NextArg))

CallDateRange ==
    /\ CanCall
    /\ \E f \in BuilderFields :
           Call("DateRange", f, <<NextArg, NextArg \o "'">>,
                DateRange(w, f, NextArg, NextArg \o "'"))

CallLengthGreaterThan ==
    /\ CanCall
    /\ \E f \in BuilderFields :
           Call("LengthGreaterThan", f, <<Len(chain) + 1>>,
                LengthGreaterThan(w, f, Len(chain) + 1))

NextBuilder ==
    \/ CallWhere
    \/ CallAnd
    \/ CallOr
    \/ CallAddAnd
    \/ CallAddOr
    \/ CallLimitClause
    \/ CallOffsetClause
    \/ CallAddPreload
    \/ CallLike
    \/ CallIs
    \/ CallIsNot
    \/ CallGreaterThan
    \/ CallLessThanOrEqual
    \/ CallGreaterThanOrEqual
    \/ CallNotEqual
    \/ CallEqual
    \/ CallDateRange
    \/ CallLengthGreaterThan

SpecBuilder == InitBuilder /\ [][NextBuilder]_vars

ComparisonHelpers ==
    {"Like", "IsNot", "Is", "Equal", "NotEqual", "GreaterThan", "GreaterThanOrEqual",
     "LessThanOrEqual", "LengthGreaterThan", "DateRange"}

\* the fragment the documentation gives a comparison helper
HelperFragment(call) ==
    CASE call.op = "Like"               -> call.text \o " LIKE ?"
      [] call.op = "IsNot"              -> call.text \o " IS NOT ?"
      [] call.op = "Is"                 -> call.text \o " IS ?"
      [] call.op = "Equal"              -> call.text \o " = ?"
      [] call.op = "NotEqual"           -> call.text \o " != ?"
      [] call.op = "GreaterThan"        -> call.text \o " > ?"
      [] call.op = "GreaterThanOrEqual" -> call.text \o " >= ?"
      [] call.op = "LessThanOrEqual"    -> call.text \o " <= ?"
      [] call.op = "LengthGreaterThan"  -> "LENGTH(" \o call.text \o ") > ?"
      [] call.op = "DateRange"          -> call.text \o " >= ? AND " \o call.text \o " <= ?"

\* C9: a comparison helper called on a descriptor whose Query is not empty
\* joins its fragment to the Query with " AND " and appends its arguments in
\* order, as in the chain Where(...).And(...).Like(...).IsNot(...) of the
\* documentation of NewWhereClause.
C9_HelperJoinsWithAnd ==
    [][(/\ Len(chain') = Len(chain) + 1
        /\ chain'[Len(chain')].op \in ComparisonHelpers
        /\ w.Query # "")
       => /\ w'.Query = w.Query \o " AND " \o HelperFragment(chain'[Len(chain')])
          /\ w'.Args = w.Args \o chain'[Len(chain')].args]_vars

-----------------------------------------------------------------------------
(* the bulk operations and their transaction *)

MaxBatch == 3

\* what o.validate.Struct and the statement do for one model of the batch
ModelKinds == {"ok", "invalid", "dberr"}

RECURSIVE Batches(_)
Batches(n) ==
    IF n = 0 THEN {<<>>}
    ELSE Batches(n - 1)
         \cup {Append(b, k) : b \in {x \in Batches(n - 1) : Len(x) = n - 1}, k \in ModelKinds}

\* a call of BulkCreate, BulkUpdate or BulkDelete with its arguments and the
\* outcome of Commit; no transaction yet
InitBulk ==
    /\ IdleCompile
    /\ w = NewWhereClause
    /\ chain = <<>>
    /\ \E op \in {"BulkCreate", "BulkUpdate", "BulkDelete"},
          models \in Batches(MaxBatch),
          uuids \in 0..MaxBatch,
          whereNil \in BOOLEAN,
          commitFails \in BOOLEAN :
           /\ op # "BulkUpdate" => uuids = Len(models)
           /\ op # "BulkCreate" => \A k \in 1..Len(models) : models[k] # "invalid"
           /\ op = "BulkCreate" => ~whereNil
           /\ bulk = [op |-> op, models |-> models, uuids |-> uuids,
                      whereNil |-> whereNil, commitFails |-> commitFails,
                      pc |-> "entry", idx |-> 0,
                      begins |-> 0, commits |-> 0, rollbacks |-> 0, respErrors |-> 0]

\* tx := o.DB.Begin()
Begin(b) == [b EXCEPT !.begins = b.begins + 1, !.pc = "loop", !.idx = 1]

\* return append(respErrors, ...) with the transaction left as it is
ReturnError(b) == [b EXCEPT !.respErrors = b.respErrors + 1, !.pc = "returned"]

\* tx.Rollback(); return respErrors
RollbackAndReturn(b) ==
    [b EXCEPT !.respErrors = b.respErrors + 1, !.rollbacks = b.rollbacks + 1,
              !.pc = "returned"]

\* tx.Commit(), its error appended; return respErrors
CommitAndReturn(b) ==
    [b EXCEPT !.commits = b.commits + 1,
              !.respErrors = IF b.commitFails THEN b.respErrors + 1 ELSE b.respErrors,
              !.pc = "returned"]

InBatch(op) == bulk.op = op /\ bulk.pc = "loop" /\ bulk.idx <= Len(bulk.models)
AfterBatch(op) == bulk.op = op /\ bulk.pc = "loop" /\ bulk.idx > Len(bulk.models)

BulkStep(b) == bulk' = b /\ UNCHANGED <<compileVars, w, chain>>

\* BulkCreate
CreateBegin == bulk.op = "BulkCreate" /\ bulk.pc = "entry" /\ BulkStep(Begin(bulk))

CreateInvalid ==
    /\ InBatch("BulkCreate")
    /\ bulk.models[bulk.idx] = "invalid"
    /\ BulkStep(ReturnError(bulk))

CreateFails ==
    /\ InBatch("BulkCreate")
    /\ bulk.models[bulk.idx] = "dberr"
    /\ BulkStep(RollbackAndReturn(bulk))

CreateNext ==
    /\ InBatch("BulkCreate")
    /\ bulk.models[bulk.idx] = "ok"
    /\ BulkStep([bulk EXCEPT !.idx = bulk.idx + 1])

CreateCommit == AfterBatch("BulkCreate") /\ BulkStep(CommitAndReturn(bulk))

\* BulkUpdate
UpdateMismatch ==
    /\ bulk.op = "BulkUpdate" /\ bulk.pc = "entry"
    /\ Len(bulk.models) # bulk.uuids
    /\ BulkStep(ReturnError(bulk))

UpdateBegin ==
    /\ bulk.op = "BulkUpdate" /\ bulk.pc = "entry"
    /\ Len(bulk.models) = bulk.uuids
    /\ BulkStep(Begin(bulk))

UpdateNoWhere ==
    /\ InBatch("BulkUpdate")
    /\ bulk.whereNil
    /\ BulkStep(ReturnError(bulk))

UpdateFails ==
    /\ InBatch("BulkUpdate")
    /\ ~bulk.whereNil
    /\ bulk.models[bulk.idx] = "dberr"
    /\ BulkStep(RollbackAndReturn(bulk))

UpdateNext ==
    /\ InBatch("BulkUpdate")
    /\ ~bulk.whereNil
    /\ bulk.models[bulk.idx] = "ok"
    /\ BulkStep([bulk EXCEPT !.idx = bulk.idx + 1])

UpdateCommit == AfterBatch("BulkUpdate") /\ BulkStep(CommitAndReturn(bulk))

\* BulkDelete
DeleteNoWhere ==
    /\ bulk.op = "BulkDelete" /\ bulk.pc = "entry"
    /\ bulk.whereNil
    /\ BulkStep(ReturnError(bulk))

DeleteBegin ==
    /\ bulk.op = "BulkDelete" /\ bulk.pc = "entry"
    /\ ~bulk.whereNil
    /\ BulkStep(Begin(bulk))

DeleteFails ==
    /\ InBatch("BulkDelete")
    /\ bulk.models[bulk.idx] = "dberr"
    /\ BulkStep(RollbackAndReturn(bulk))

DeleteNext ==
    /\ InBatch("BulkDelete")
    /\ bulk.models[bulk.idx] = "ok"
    /\ BulkStep([bulk EXCEPT !.idx = bulk.idx + 1])

DeleteCommit == AfterBatch("BulkDelete") /\ BulkStep(CommitAndReturn(bulk))

NextBulk ==
    \/ CreateBegin
    \/ CreateInvalid
    \/ CreateFails
    \/ CreateNext
    \/ CreateCommit
    \/ UpdateMismatch
    \/ UpdateBegin
    \/ UpdateNoWhere
    \/ UpdateFails
    \/ UpdateNext
    \/ UpdateCommit
    \/ DeleteNoWhere
    \/ DeleteBegin
    \/ DeleteFails
    \/ DeleteNext
    \/ DeleteCommit

SpecBulk == InitBulk /\ [][NextBulk]_vars

\* C10: when a bulk operation returns, every transaction it opened with Begin
\* has been closed by exactly one Commit or Rollback.
C10_TransactionClosedOnReturn ==
    (bulk.op # "none" /\ bulk.pc = "returned")
        => bulk.commits + bulk.rollbacks = bulk.begins

====
